---------------------------- MODULE Spec2Model ----------------------------
(***************************************************************************)
(* A model of four pieces of InvenTree:                                    *)
(*   - PartPricing (part/views.py): the pricing context of a part,         *)
(*   - BomDownload (part/views.py): the query parameters of a BOM export,  *)
(*   - fix_purchase_price (stock/migrations/0094): the data migration,     *)
(*   - get_media_dir / get_static_dir (InvenTree/config.py).               *)
(* Each piece has its own specification over the shared variables.         *)
(***************************************************************************)
EXTENDS Integers, Sequences, FiniteSets, TLC

VARIABLES
    parts,        \* the Part table: part id -> row
    settings,     \* InvenTreeSetting: key -> value
    request,      \* the request being served (the last one served)
    response,     \* what the handler returned or raised, and the price lookups it made
    repeated,     \* whether the request served last repeats the one served before it
    stock,        \* the StockItem table: item id -> row
    po_lines,     \* the PurchaseOrderLineItem table: a sequence of rows, in po.lines.all() order
    migrated,     \* whether the migration 0094 has run
    conf_dirs,    \* the configured directories: name -> path
    fs,           \* the directories that exist on disk
    users,        \* the User table: a sequence of rows, the id of a user is its index
    email_host,   \* django.conf.settings.EMAIL_HOST
    session       \* request.session: key -> value

vars ==
    <<parts, settings, request, response, repeated, stock, po_lines, migrated, conf_dirs, fs,
      users, email_host, session>>

(***************************************************************************)
(* Optional values (Python's None).                                        *)
(***************************************************************************)
None == <<>>
Some(v) == <<v>>
Val(o) == o[1]

(***************************************************************************)
(* Decimal values.  A decimal is the exact rational p/q in lowest terms    *)
(* (q > 0), so that equal values are equal records, as Decimal.__eq__      *)
(* compares by value.                                                      *)
(***************************************************************************)
RECURSIVE Gcd(_, _)
Gcd(a, b) == IF b = 0 THEN a ELSE Gcd(b, a % b)

Abs(x) == IF x < 0 THEN -x ELSE x

Rat(p, q) ==
    LET s == IF q < 0 THEN -1 ELSE 1
        g == Gcd(Abs(p), Abs(q))
    IN  [p |-> (s * p) \div g, q |-> (s * q) \div g]

Zero == Rat(0, 1)
One == Rat(1, 1)

RatMul(a, b) == Rat(a.p * b.p, a.q * b.q)
RatAdd(a, b) == Rat(a.p * b.q + b.p * a.q, a.q * b.q)
RatDiv(a, b) == Rat(a.p * b.q, a.q * b.p)
RatLE(a, b) == a.p * b.q <= b.p * a.q
RatLT(a, b) == a.p * b.q < b.p * a.q

RECURSIVE Pow10(_)
Pow10(k) == IF k = 0 THEN 1 ELSE 10 * Pow10(k - 1)

\* n/d rounded to the nearest integer, ties to the even one (ROUND_HALF_EVEN); d > 0
RoundHalfEven(n, d) ==
    LET f == n \div d
        r == n % d
    IN  IF 2 * r < d THEN f
        ELSE IF 2 * r > d THEN f + 1
        ELSE IF f % 2 = 0 THEN f ELSE f + 1

\* Python's round(Decimal, places): quantize to `places` decimals, half-even
round(x, places) == Rat(RoundHalfEven(x.p * Pow10(places), x.q), Pow10(places))

\* Decimal truthiness: a Decimal is falsy exactly when it is zero
Truthy(x) == x.p # 0


(***************************************************************************)
(* Text.  A string of a request is a sequence of one-character strings.    *)
(***************************************************************************)
DigitVal ==
    ("0" :> 0) @@ ("1" :> 1) @@ ("2" :> 2) @@ ("3" :> 3) @@ ("4" :> 4) @@
    ("5" :> 5) @@ ("6" :> 6) @@ ("7" :> 7) @@ ("8" :> 8) @@ ("9" :> 9)

IsDigit(c) == c \in DOMAIN DigitVal

AllDigits(s) == \A i \in 1..Len(s) : IsDigit(s[i])

RECURSIVE DigitsValue(_)
DigitsValue(s) ==
    IF s = <<>> THEN 0
    ELSE 10 * DigitsValue(SubSeq(s, 1, Len(s) - 1)) + DigitVal[s[Len(s)]]

RECURSIVE LStrip(_)
LStrip(s) == IF s # <<>> /\ Head(s) = " " THEN LStrip(Tail(s)) ELSE s

RECURSIVE RStrip(_)
RStrip(s) == IF s # <<>> /\ s[Len(s)] = " " THEN RStrip(SubSeq(s, 1, Len(s) - 1)) ELSE s

Strip(s) == RStrip(LStrip(s))

\* the decimal digits of n >= 0
RECURSIVE NatToStr(_)
NatToStr(n) ==
    LET d == CHOOSE c \in DOMAIN DigitVal : DigitVal[c] = n % 10
    IN  IF n < 10 THEN <<d>> ELSE Append(NatToStr(n \div 10), d)

IntToStr(i) == IF i < 0 THEN <<"-">> \o NatToStr(-i) ELSE NatToStr(i)

(***************************************************************************)
(* Decimal(text): surrounding blanks stripped, an optional sign, then      *)
(* digits with at most one point and at least one digit, or NaN; anything  *)
(* else raises decimal.InvalidOperation.  (Exponents, underscores and      *)
(* Infinity are outside the alphabet of the requests of this model.)       *)
(***************************************************************************)
ParseDecimal(s) ==
    LET t == Strip(s)
        signed == t # <<>> /\ Head(t) \in {"-", "+"}
        sign == IF signed /\ Head(t) = "-" THEN -1 ELSE 1
        body == IF signed THEN Tail(t) ELSE t
        dots == {i \in 1..Len(body) : body[i] = "."}
        dot == IF dots = {} THEN Len(body) + 1 ELSE CHOOSE i \in dots : TRUE
        int == SubSeq(body, 1, dot - 1)
        frac == SubSeq(body, dot + 1, Len(body))
        numeric == /\ Cardinality(dots) <= 1
                   /\ AllDigits(int) /\ AllDigits(frac)
                   /\ Len(int) + Len(frac) > 0
    IN  IF numeric
        THEN [kind |-> "number",
              value |-> Rat(sign * (DigitsValue(int) * Pow10(Len(frac)) + DigitsValue(frac)),
                            Pow10(Len(frac)))]
        ELSE IF body = <<"N", "a", "N">> THEN [kind |-> "nan"]
        ELSE [kind |-> "InvalidOperation"]

(***************************************************************************)
(* The price lookups of Part (part/models.py).                             *)
(*                                                                         *)
(* A part row: suppliers (its SupplierPart rows, each with a unit price or *)
(* none), bom (its BOM lines, each with a child and a quantity),           *)
(* internal_price and price (the unit prices set by hand, or none).        *)
(* A child: market (a [min, max] unit price range, or none) and internal   *)
(* (a unit price, or none).                                                *)
(***************************************************************************)
supplier_count(part) == Len(part.suppliers)
bom_count(part) == Len(part.bom)

RECURSIVE RatMin(_)
RatMin(S) ==
    LET x == CHOOSE x \in S : TRUE
    IN  IF S = {x} THEN x
        ELSE LET m == RatMin(S \ {x}) IN IF RatLE(x, m) THEN x ELSE m

RECURSIVE RatMax(_)
RatMax(S) ==
    LET x == CHOOSE x \in S : TRUE
    IN  IF S = {x} THEN x
        ELSE LET m == RatMax(S \ {x}) IN IF RatLE(m, x) THEN x ELSE m

\* the cheapest and the dearest total price over the suppliers that have a price
get_supplier_price_range(part, quantity) ==
    LET priced == {i \in 1..Len(part.suppliers) : part.suppliers[i].price # None}
        totals == {RatMul(Val(part.suppliers[i].price), quantity) : i \in priced}
    IN  IF totals = {} THEN None
        ELSE Some([min |-> RatMin(totals), max |-> RatMax(totals)])

\* the unit cost range of a BOM child: its internal price when asked for and set,
\* else its market range; a purchase-only pass never uses the internal price
ChildUnitCost(child, internal, purchase) ==
    IF internal /\ ~purchase /\ child.internal # None
    THEN Some([min |-> Val(child.internal), max |-> Val(child.internal)])
    ELSE child.market

RECURSIVE SumLines(_, _, _, _, _)
SumLines(lines, quantity, internal, purchase, end) ==
    IF lines = <<>> THEN Zero
    ELSE LET l == Head(lines)
             c == ChildUnitCost(l.child, internal, purchase)
             rest == SumLines(Tail(lines), quantity, internal, purchase, end)
         IN  IF c = None THEN rest
             ELSE RatAdd(rest, RatMul(RatMul(Val(c)[end], Rat(l.quantity, 1)), quantity))

\* the sum over the BOM lines of child unit cost x line quantity x build quantity;
\* a line whose child has no price adds nothing; no priced line at all: no range
get_bom_price_range(part, quantity, internal, purchase) ==
    IF \A i \in 1..Len(part.bom) : ChildUnitCost(part.bom[i].child, internal, purchase) = None
    THEN None
    ELSE Some([min |-> SumLines(part.bom, quantity, internal, purchase, "min"),
               max |-> SumLines(part.bom, quantity, internal, purchase, "max")])

get_internal_price(part, quantity) ==
    IF part.internal_price = None THEN None
    ELSE Some(RatMul(Val(part.internal_price), quantity))

get_price(part, quantity) ==
    IF part.price = None THEN None
    ELSE Some(RatMul(Val(part.price), quantity))

(***************************************************************************)
(* PartPricing (part/views.py).                                            *)
(***************************************************************************)
\* (a variant that falls back to 1 when the text does not parse)
get_quantity_defaulting(POST) ==
    IF POST = None \/ ParseDecimal(Val(POST)).kind = "InvalidOperation"
    THEN [kind |-> "number", value |-> One]
    ELSE ParseDecimal(Val(POST))

\* get_quantity: Decimal(request.POST.get('quantity', 1)); POST is the value of the
\* field 'quantity' of the request's form data, None when the field is missing
get_quantity(POST) ==
    IF POST = None THEN [kind |-> "number", value |-> One]
    ELSE ParseDecimal(Val(POST))

\* (a variant that falls back to a stored part)
get_part_fallback(pk) ==
    IF pk \in DOMAIN parts THEN Some(parts[pk])
    ELSE Some(parts[CHOOSE k \in DOMAIN parts : TRUE])

\* get_part: the part of that id, None when Part.DoesNotExist
get_part(pk) == IF pk \in DOMAIN parts THEN Some(parts[pk]) ELSE None

\* the currency scaler, Decimal(1.0)
scaler == One

\* (a variant that clamps every quantity below 1)
EffectiveQuantity_below_one(quantity) == IF RatLT(quantity, One) THEN One ELSE quantity

\* the quantity get_pricing works with
EffectiveQuantity(quantity) == IF RatLE(quantity, Zero) THEN One ELSE quantity

\* a record of one price lookup
Call(fn, quantity, internal, purchase) ==
    [fn |-> fn, quantity |-> quantity, internal |-> internal, purchase |-> purchase]

\* lines 132-154: the supplier facets
BuyFacets(part, quantity) ==
    IF supplier_count(part) > 0 /\ get_supplier_price_range(part, quantity) # None
    THEN LET buy_price == Val(get_supplier_price_range(part, quantity))
             min_raw == RatDiv(buy_price.min, scaler)
             max_raw == RatDiv(buy_price.max, scaler)
             min_unit_buy_price == round(RatDiv(min_raw, quantity), 3)
             max_unit_buy_price == round(RatDiv(max_raw, quantity), 3)
             min_buy_price == round(min_raw, 3)
             max_buy_price == round(max_raw, 3)
         IN  (IF Truthy(min_buy_price)
              THEN ("min_total_buy_price" :> min_buy_price) @@
                   ("min_unit_buy_price" :> min_unit_buy_price)
              ELSE <<>>)
             @@
             (IF Truthy(max_buy_price)
              THEN ("max_total_buy_price" :> max_buy_price) @@
                   ("max_unit_buy_price" :> max_unit_buy_price)
              ELSE <<>>)
    ELSE <<>>

\* (a variant that derives the per-unit value from the rounded total)
BomFacets_from_rounded(bom_price, quantity) ==
    IF bom_price # None
    THEN LET min_bom_price == round(RatDiv(Val(bom_price).min, scaler), 3)
             max_bom_price == round(RatDiv(Val(bom_price).max, scaler), 3)
         IN  (IF Truthy(min_bom_price)
              THEN ("min_total_bom_price" :> min_bom_price) @@
                   ("min_unit_bom_price" :> round(RatDiv(min_bom_price, quantity), 3))
              ELSE <<>>)
             @@
             (IF Truthy(max_bom_price)
              THEN ("max_total_bom_price" :> max_bom_price) @@
                   ("max_unit_bom_price" :> round(RatDiv(max_bom_price, quantity), 3))
              ELSE <<>>)
    ELSE <<>>

\* (a variant that reports the total as the per-unit value)
BomFacets_undivided(bom_price, quantity) ==
    IF bom_price # None
    THEN LET min_bom_price == RatDiv(Val(bom_price).min, scaler)
             max_bom_price == RatDiv(Val(bom_price).max, scaler)
         IN  (IF Truthy(min_bom_price)
              THEN ("min_total_bom_price" :> round(min_bom_price, 3)) @@
                   ("min_unit_bom_price" :> round(min_bom_price, 3))
              ELSE <<>>)
             @@
             (IF Truthy(max_bom_price)
              THEN ("max_total_bom_price" :> round(max_bom_price, 3)) @@
                   ("max_unit_bom_price" :> round(max_bom_price, 3))
              ELSE <<>>)
    ELSE <<>>

\* lines 164-176: the BOM facets
BomFacets(bom_price, quantity) ==
    IF bom_price # None
    THEN LET min_bom_price == RatDiv(Val(bom_price).min, scaler)
             max_bom_price == RatDiv(Val(bom_price).max, scaler)
         IN  (IF Truthy(min_bom_price)
              THEN ("min_total_bom_price" :> round(min_bom_price, 3)) @@
                   ("min_unit_bom_price" :> round(RatDiv(min_bom_price, quantity), 3))
              ELSE <<>>)
             @@
             (IF Truthy(max_bom_price)
              THEN ("max_total_bom_price" :> round(max_bom_price, 3)) @@
                   ("max_unit_bom_price" :> round(RatDiv(max_bom_price, quantity), 3))
              ELSE <<>>)
    ELSE <<>>

\* lines 178-197: the BOM purchase-only facets
BomPurchaseFacets(purchase_price, quantity) ==
    IF purchase_price # None
    THEN LET min_bom_purchase_price == RatDiv(Val(purchase_price).min, scaler)
             max_bom_purchase_price == RatDiv(Val(purchase_price).max, scaler)
         IN  (IF Truthy(min_bom_purchase_price)
              THEN ("min_total_bom_purchase_price" :> round(min_bom_purchase_price, 3)) @@
                   ("min_unit_bom_purchase_price" :>
                        round(RatDiv(min_bom_purchase_price, quantity), 3))
              ELSE <<>>)
             @@
             (IF Truthy(max_bom_purchase_price)
              THEN ("max_total_bom_purchase_price" :> round(max_bom_purchase_price, 3)) @@
                   ("max_unit_bom_purchase_price" :>
                        round(RatDiv(max_bom_purchase_price, quantity), 3))
              ELSE <<>>)
    ELSE <<>>

\* (a variant that reports an unset internal price as zero)
InternalFacets_zero(internal_part_price, quantity) ==
    IF internal_part_price # None
    THEN ("total_internal_part_price" :> round(Val(internal_part_price), 3)) @@
         ("unit_internal_part_price" :> round(RatDiv(Val(internal_part_price), quantity), 3))
    ELSE ("total_internal_part_price" :> Zero) @@ ("unit_internal_part_price" :> Zero)

\* lines 199-203: the internal price facet
InternalFacets(internal_part_price, quantity) ==
    IF internal_part_price # None
    THEN ("total_internal_part_price" :> round(Val(internal_part_price), 3)) @@
         ("unit_internal_part_price" :> round(RatDiv(Val(internal_part_price), quantity), 3))
    ELSE <<>>

\* lines 205-209: the list price facet
PartFacets(part_price, quantity) ==
    IF part_price # None
    THEN ("total_part_price" :> round(Val(part_price), 3)) @@
         ("unit_part_price" :> round(RatDiv(Val(part_price), quantity), 3))
    ELSE <<>>

\* the price lookups get_pricing makes for a part, in order
PricingCalls(part, quantity, use_internal) ==
    (IF supplier_count(part) > 0
     THEN <<Call("get_supplier_price_range", quantity, FALSE, FALSE)>>
     ELSE <<>>)
    \o
    (IF bom_count(part) > 0
     THEN <<Call("get_bom_price_range", quantity, use_internal, FALSE),
            Call("get_bom_price_range", quantity, FALSE, TRUE)>>
     ELSE <<>>)
    \o
    <<Call("get_internal_price", quantity, FALSE, FALSE),
      Call("get_price", quantity, FALSE, FALSE)>>

\* get_pricing: the context (a mapping from key to value) and the lookups made
get_pricing(pk, quantity_arg) ==
    LET quantity == EffectiveQuantity(quantity_arg)
        part == get_part(pk)
        ctx == ("part" :> part) @@ ("quantity" :> quantity) @@ ("currency" :> None)
    IN  IF part = None
        THEN [ctx |-> ctx, calls |-> <<>>]
        ELSE LET use_internal == settings["PART_BOM_USE_INTERNAL_PRICE"]
                 bom == bom_count(Val(part)) > 0
                 bom_price ==
                     IF bom THEN get_bom_price_range(Val(part), quantity, use_internal, FALSE)
                     ELSE None
                 purchase_price ==
                     IF bom THEN get_bom_price_range(Val(part), quantity, FALSE, TRUE)
                     ELSE None
             IN  [ctx |-> PartFacets(get_price(Val(part), quantity), quantity) @@
                          InternalFacets(get_internal_price(Val(part), quantity), quantity) @@
                          BomPurchaseFacets(purchase_price, quantity) @@
                          BomFacets(bom_price, quantity) @@
                          BuyFacets(Val(part), quantity) @@
                          ctx,
                  calls |-> PricingCalls(Val(part), quantity, use_internal)]

\* what a handler of PartPricing answers for the form data POST: the form keeps the
\* quantity asked for, post marks the form invalid, the context is the pricing
PricingResponse(method, pk, POST) ==
    LET qty == get_quantity(POST)
    IN  IF qty.kind = "InvalidOperation"
        THEN \* Decimal() raises in get_quantity
             [status |-> "error", exception |-> "InvalidOperation", calls |-> <<>>]
        ELSE IF qty.kind = "nan"
        THEN \* quantity <= 0 raises for a NaN
             [status |-> "error", exception |-> "InvalidOperation", calls |-> <<>>]
        ELSE LET pricing == get_pricing(pk, qty.value)
             IN  [status |-> "ok",
                  initial |-> [quantity |-> qty.value],
                  data |-> IF method = "POST" THEN Some([form_valid |-> FALSE]) ELSE None,
                  context |-> pricing.ctx,
                  calls |-> pricing.calls]

(***************************************************************************)
(* The data and the requests the pricing specification draws from.         *)
(***************************************************************************)
MaxQty == 2

Price(p, q) == Some(Rat(p, q))
Range(lo, hi) == Some([min |-> lo, max |-> hi])

ChildA == [name |-> "A", market |-> Range(Rat(2, 1), Rat(2, 1)), internal |-> None]
ChildB == [name |-> "B", market |-> Range(Rat(5, 1), Rat(5, 1)), internal |-> None]
ChildC == [name |-> "C", market |-> None, internal |-> None]
ChildD == [name |-> "D", market |-> Range(Rat(15, 10000), Rat(45, 10000)),
           internal |-> Price(4, 10000)]

LineA == [child |-> ChildA, quantity |-> 3]
LineB == [child |-> ChildB, quantity |-> 1]
LineC == [child |-> ChildC, quantity |-> 1]
LineD == [child |-> ChildD, quantity |-> 1]

\* the BOMs of the stored part: none, one unpriced child, priced children, a mix
Boms == {<<>>, <<LineC>>, <<LineA, LineB>>, <<LineD>>, <<LineA, LineB, LineC, LineD>>}

S1 == [name |-> "S1", price |-> None]
S2 == [name |-> "S2", price |-> Price(5, 4)]
S3 == [name |-> "S3", price |-> Price(4, 10000)]

Suppliers == {<<>>, <<S1>>, <<S3>>, <<S2, S3>>}

\* the internal price and the list price of the stored part
HandPrices ==
    {<<None, None>>, <<Price(0, 1), None>>, <<Price(45, 10000), Price(3, 2)>>,
     <<None, Price(3, 2)>>}

PartRows ==
    {[id |-> 1, suppliers |-> s, bom |-> b, internal_price |-> h[1], price |-> h[2]] :
        s \in Suppliers, b \in Boms, h \in HandPrices}

\* the ids a request may name: the stored part and one that is not stored
PartKeys == {1, 2}

\* the values of the form field 'quantity': missing, an integer, or other text
QuantityFields ==
    {None}
    \cup {Some(IntToStr(i)) : i \in -MaxQty..MaxQty}
    \cup {Some(<<"0", ".", "5">>), Some(<<"-", ".", "5">>), Some(<<" ", "3", " ">>),
          Some(<<>>), Some(<<"a", "b", "c">>), Some(<<"N", "a", "N">>)}

NoRequest == [view |-> "none"]
NoResponse == [status |-> "none"]
NoTable == <<>>

InitPricing ==
    /\ \E row \in PartRows : parts = (1 :> row)
    /\ settings \in [{"PART_BOM_USE_INTERNAL_PRICE"} -> BOOLEAN]
    /\ request = NoRequest
    /\ response = NoResponse
    /\ repeated = FALSE
    /\ users = NoTable
    /\ email_host = ""
    /\ session = NoTable
    /\ stock = NoTable
    /\ po_lines = NoTable
    /\ migrated = FALSE
    /\ conf_dirs = NoTable
    /\ fs = {}

\* PartPricing.get: a GET request carries no form data, so request.POST is empty
PartPricing_get ==
    \E pk \in PartKeys :
        LET r == PricingResponse("GET", pk, None)
        IN  /\ request' = [view |-> "PartPricing", method |-> "GET", pk |-> pk, POST |-> None]
            /\ response' = r
            /\ repeated' = (request' = request)
            /\ UNCHANGED <<parts, settings, stock, po_lines, migrated, conf_dirs, fs, users, email_host, session>>

\* (a variant that stores the computed list price on the part)
PartPricing_post_saving ==
    \E pk \in PartKeys, POST \in QuantityFields :
        LET r == PricingResponse("POST", pk, POST)
            saves == /\ r.status = "ok" /\ pk \in DOMAIN parts
                     /\ "total_part_price" \in DOMAIN r.context
        IN  /\ request' = [view |-> "PartPricing", method |-> "POST", pk |-> pk, POST |-> POST]
            /\ response' = r
            /\ repeated' = (request' = request)
            /\ parts' = IF saves
                        THEN [parts EXCEPT ![pk].price = Some(r.context["total_part_price"])]
                        ELSE parts
            /\ UNCHANGED <<settings, stock, po_lines, migrated, conf_dirs, fs, users, email_host, session>>

\* PartPricing.post: the form is always marked invalid, the context is the pricing
PartPricing_post ==
    \E pk \in PartKeys, POST \in QuantityFields :
        LET r == PricingResponse("POST", pk, POST)
        IN  /\ request' = [view |-> "PartPricing", method |-> "POST", pk |-> pk, POST |-> POST]
            /\ response' = r
            /\ repeated' = (request' = request)
            /\ UNCHANGED <<parts, settings, stock, po_lines, migrated, conf_dirs, fs, users, email_host, session>>

NextPricing == PartPricing_get \/ PartPricing_post

SpecPricing == InitPricing /\ [][NextPricing]_vars

(***************************************************************************)
(* Properties of PartPricing, checked under SpecPricing.                   *)
(***************************************************************************)
PricingServed == request.view = "PartPricing" /\ response.status = "ok"
Ctx == response.context
BaseKeys == {"part", "quantity", "currency"}
PartFound == request.pk \in DOMAIN parts
ThePart == parts[request.pk]

\* the quantity the request asks for, when its field parses to a number
Asked == get_quantity(request.POST).value

\* the facets: <<key of the total, key of the per-unit value>>
BuyPairs ==
    {<<"min_total_buy_price", "min_unit_buy_price">>,
     <<"max_total_buy_price", "max_unit_buy_price">>}
BomPairs ==
    {<<"min_total_bom_price", "min_unit_bom_price">>,
     <<"max_total_bom_price", "max_unit_bom_price">>}
BomPurchasePairs ==
    {<<"min_total_bom_purchase_price", "min_unit_bom_purchase_price">>,
     <<"max_total_bom_purchase_price", "max_unit_bom_purchase_price">>}
InternalPairs == {<<"total_internal_part_price", "unit_internal_part_price">>}
PartPairs == {<<"total_part_price", "unit_part_price">>}
FacetPairs == BuyPairs \cup BomPairs \cup BomPurchasePairs \cup InternalPairs \cup PartPairs
KeysOf(pairs) == {f[1] : f \in pairs} \cup {f[2] : f \in pairs}

\* C1: a quantity q <= 0 is replaced by 1 (the context holds quantity 1, every price
\* lookup is called with 1 and every per-unit value equals its total); a quantity
\* q > 0 is used as it is.
C1_EffectiveQuantity ==
    PricingServed =>
        LET used == IF Asked.p <= 0 THEN One ELSE Asked
        IN  /\ Ctx["quantity"] = used
            /\ \A i \in 1..Len(response.calls) : response.calls[i].quantity = used
            /\ Asked.p <= 0 =>
                   \A f \in FacetPairs : f[1] \in DOMAIN Ctx => Ctx[f[2]] = Ctx[f[1]]

C1_Witness ==
    /\ PricingServed /\ PartFound
    /\ request.POST = Some(<<"-", "2">>)
    /\ Ctx["quantity"] = One
    /\ "total_part_price" \in DOMAIN Ctx
    /\ Len(response.calls) > 0

\* the form field 'quantity' holds text Decimal() rejects / a number <= 0
Unparsable(POST) == POST # None /\ ParseDecimal(Val(POST)).kind = "InvalidOperation"
NonPositive(POST) ==
    /\ POST # None
    /\ ParseDecimal(Val(POST)).kind = "number"
    /\ ParseDecimal(Val(POST)).value.p <= 0

\* C2 (as claimed): a quantity that is <= 0 or does not parse as a decimal is replaced
\* by 1: the handler completes and builds the context with quantity 1.
C2_InvalidQuantityDefaulted ==
    (request.view = "PartPricing" /\ (Unparsable(request.POST) \/ NonPositive(request.POST)))
        => (response.status = "ok" /\ Ctx["quantity"] = One)

\* C2 (amended): a missing quantity and a quantity <= 0 give quantity 1; a quantity
\* that does not parse as a decimal is not defaulted: Decimal() raises
\* decimal.InvalidOperation, the handler ends with that error and builds no context.
C2_InvalidQuantity ==
    request.view = "PartPricing" =>
        /\ (request.POST = None \/ NonPositive(request.POST))
               => (response.status = "ok" /\ Ctx["quantity"] = One)
        /\ Unparsable(request.POST)
               => /\ response.status = "error"
                  /\ response.exception = "InvalidOperation"
                  /\ response.calls = <<>>

C2_Witness ==
    /\ request.view = "PartPricing" /\ request.method = "POST"
    /\ request.POST = Some(<<"a", "b", "c">>)
    /\ response.status = "error"

\* C3: when no part has the id of the request, get_pricing raises nothing and returns
\* only part (None), quantity and currency, and makes no price lookup.
C3_MissingPart ==
    (request.view = "PartPricing" /\ ~PartFound /\ get_quantity(request.POST).kind = "number")
        => /\ response.status = "ok"
           /\ DOMAIN Ctx = BaseKeys
           /\ Ctx["part"] = None
           /\ Ctx["currency"] = None
           /\ Ctx["quantity"] = (IF Asked.p <= 0 THEN One ELSE Asked)
           /\ response.calls = <<>>

C3_Witness ==
    /\ PricingServed /\ ~PartFound
    /\ request.POST = Some(<<"2">>)
    /\ Ctx["part"] = None

\* the sources of the facets of the part of the request, at the quantity of the context
UseInternal == settings["PART_BOM_USE_INTERNAL_PRICE"]
SupplierSource ==
    IF supplier_count(ThePart) > 0
    THEN get_supplier_price_range(ThePart, Ctx["quantity"]) ELSE None
BomSource ==
    IF bom_count(ThePart) > 0
    THEN get_bom_price_range(ThePart, Ctx["quantity"], UseInternal, FALSE) ELSE None
PurchaseSource ==
    IF bom_count(ThePart) > 0
    THEN get_bom_price_range(ThePart, Ctx["quantity"], FALSE, TRUE) ELSE None
InternalSource == get_internal_price(ThePart, Ctx["quantity"])
ListSource == get_price(ThePart, Ctx["quantity"])

\* C4: a facet whose source is absent is left out of the context (not reported as
\* zero); with no source at all the context holds no price facet.
C4_AbsentOmitted ==
    (PricingServed /\ PartFound) =>
        /\ SupplierSource = None => KeysOf(BuyPairs) \cap DOMAIN Ctx = {}
        /\ BomSource = None => KeysOf(BomPairs) \cap DOMAIN Ctx = {}
        /\ PurchaseSource = None => KeysOf(BomPurchasePairs) \cap DOMAIN Ctx = {}
        /\ InternalSource = None => KeysOf(InternalPairs) \cap DOMAIN Ctx = {}
        /\ ListSource = None => KeysOf(PartPairs) \cap DOMAIN Ctx = {}
        /\ (/\ SupplierSource = None /\ BomSource = None /\ PurchaseSource = None
            /\ InternalSource = None /\ ListSource = None) => DOMAIN Ctx = BaseKeys

C4_Witness ==
    /\ PricingServed /\ PartFound
    /\ ThePart.suppliers = <<S1>> /\ ThePart.bom = <<LineC>>
    /\ ThePart.internal_price = None /\ ThePart.price = None
    /\ DOMAIN Ctx = BaseKeys

\* the source of a facet, by the key of its total
Source(key) ==
    CASE key = "min_total_buy_price" -> IF SupplierSource = None THEN None
                                         ELSE Some(Val(SupplierSource).min)
      [] key = "max_total_buy_price" -> IF SupplierSource = None THEN None
                                         ELSE Some(Val(SupplierSource).max)
      [] key = "min_total_bom_price" -> IF BomSource = None THEN None
                                         ELSE Some(Val(BomSource).min)
      [] key = "max_total_bom_price" -> IF BomSource = None THEN None
                                         ELSE Some(Val(BomSource).max)
      [] key = "min_total_bom_purchase_price" -> IF PurchaseSource = None THEN None
                                                  ELSE Some(Val(PurchaseSource).min)
      [] key = "max_total_bom_purchase_price" -> IF PurchaseSource = None THEN None
                                                  ELSE Some(Val(PurchaseSource).max)
      [] key = "total_internal_part_price" -> InternalSource
      [] key = "total_part_price" -> ListSource

\* C5: for every facet in the context, the total and the per-unit key are both there,
\* the total is the source value rounded to 3 decimals and the per-unit value is the
\* source value divided by the quantity of the context, rounded to 3 decimals.
C5_UnitIsTotalByQuantity ==
    (PricingServed /\ PartFound) =>
        \A f \in FacetPairs :
            (f[1] \in DOMAIN Ctx \/ f[2] \in DOMAIN Ctx) =>
                /\ f[1] \in DOMAIN Ctx /\ f[2] \in DOMAIN Ctx
                /\ Source(f[1]) # None
                /\ Ctx[f[1]] = round(Val(Source(f[1])), 3)
                /\ Ctx[f[2]] = round(RatDiv(Val(Source(f[1])), Ctx["quantity"]), 3)

\* a BOM of child D alone at quantity 3: 0.0045 gives the total 0.004 and, divided by
\* 3 before rounding, the per-unit value 0.002
C5_Witness ==
    /\ PricingServed /\ PartFound
    /\ ThePart.bom = <<LineD>> /\ ~UseInternal
    /\ Ctx["quantity"] = Rat(3, 1)
    /\ Ctx["min_total_bom_price"] = Rat(4, 1000)
    /\ Ctx["min_unit_bom_price"] = Rat(2, 1000)

\* C6: a pricing request writes nothing to the stored parts (with their supplier
\* records and BOM lines) or to the settings, and a request that repeats the one
\* before it gets the same answer.
C6_Idempotent ==
    [][request'.view = "PartPricing" =>
          /\ parts' = parts
          /\ settings' = settings
          /\ (request' = request => response' = response)]_vars

C6_Witness ==
    /\ PricingServed /\ PartFound /\ repeated
    /\ request.POST = Some(<<"2">>)
    /\ "total_part_price" \in DOMAIN Ctx

\* the sum over the BOM lines of unit price x line quantity x q
RECURSIVE BomTotal(_, _)
BomTotal(lines, q) ==
    IF lines = <<>> THEN Zero
    ELSE RatAdd(RatMul(RatMul(Val(ChildUnitCost(Head(lines).child, UseInternal, FALSE)).min,
                              Rat(Head(lines).quantity, 1)), q),
                BomTotal(Tail(lines), q))

\* every BOM line of the part has a child with one unit price
SinglePriced(part) ==
    /\ bom_count(part) > 0
    /\ \A i \in 1..Len(part.bom) :
           LET c == ChildUnitCost(part.bom[i].child, UseInternal, FALSE)
           IN  c # None /\ Val(c).min = Val(c).max

\* C7: for a part whose BOM children each have a unit price, the BOM total of the
\* context at quantity q is the sum over the lines of unit price x line quantity x q
\* rounded to 3 decimals, and the BOM per-unit value is that sum divided by q, rounded
\* (a sum of zero leaves the facet out).
C7_BomTotal ==
    (PricingServed /\ PartFound /\ SinglePriced(ThePart)) =>
        LET q == Ctx["quantity"]
            total == BomTotal(ThePart.bom, q)
        IN  IF total = Zero
            THEN KeysOf(BomPairs) \cap DOMAIN Ctx = {}
            ELSE /\ Ctx["min_total_bom_price"] = round(total, 3)
                 /\ Ctx["max_total_bom_price"] = round(total, 3)
                 /\ Ctx["min_unit_bom_price"] = round(RatDiv(total, q), 3)
                 /\ Ctx["max_unit_bom_price"] = round(RatDiv(total, q), 3)

\* lines (2.00, qty 3) and (5.00, qty 1) at q = 2: total 22.00, unit 11.00
C7_Witness ==
    /\ PricingServed /\ PartFound
    /\ ThePart.bom = <<LineA, LineB>>
    /\ Ctx["quantity"] = Rat(2, 1)
    /\ Ctx["min_total_bom_price"] = Rat(22, 1)
    /\ Ctx["min_unit_bom_price"] = Rat(11, 1)

(***************************************************************************)
(* fix_purchase_price (stock/migrations/0094_auto_20230220_0025.py).       *)
(*                                                                         *)
(* A StockItem row: purchase_order (an order id or None), supplier_part (a *)
(* SupplierPart row or None) and purchase_price (a decimal or None).       *)
(* A PurchaseOrderLineItem row: order (an order id), part (a SupplierPart  *)
(* row) and purchase_price (a decimal or None).                            *)
(***************************************************************************)
MaxLines == 2

SP1 == [id |-> 1, pack_size |-> Rat(5, 1)]
SP2 == [id |-> 2, pack_size |-> Rat(1, 1)]

OrderIds == {1, 2}
Amounts == {Rat(10, 1), Rat(2, 1)}

LineRows ==
    [order : OrderIds, part : {SP1, SP2}, purchase_price : {None} \cup {Some(a) : a \in Amounts}]

StockRows ==
    [purchase_order : {None, Some(1)},
     supplier_part : {None, Some(SP1), Some(SP2)},
     purchase_price : {None} \cup {Some(a) : a \in Amounts}]

\* the StockItem tables: one row or two
StockTables == {<<a>> : a \in StockRows} \cup {<<a, b>> : a, b \in StockRows}

LineTables == UNION {[1..n -> LineRows] : n \in 0..MaxLines}

\* lines 36-47: the items the migration looks at
Selected(item) ==
    /\ item.purchase_order # None
    /\ item.supplier_part # None
    /\ item.purchase_price # None
    /\ Val(item.supplier_part).pack_size # One

\* po.lines.all(): the lines of an order, in table order
RECURSIVE LinesOf(_, _)
LinesOf(lines, order) ==
    IF lines = <<>> THEN <<>>
    ELSE IF Head(lines).order = order
    THEN <<Head(lines)>> \o LinesOf(Tail(lines), order)
    ELSE LinesOf(Tail(lines), order)

\* lines 55-63: the loop over the lines of the order of one item; every matching line
\* divides the price the item holds by then, and the loop goes on to the next line
RECURSIVE ScanLines(_, _, _)
ScanLines(item, lines, n_updated) ==
    IF lines = <<>> THEN [item |-> item, n_updated |-> n_updated]
    ELSE IF /\ Head(lines).part = Val(item.supplier_part)
            /\ item.purchase_price = Head(lines).purchase_price
    THEN ScanLines([item EXCEPT !.purchase_price =
                        Some(RatDiv(Val(item.purchase_price), Val(item.supplier_part).pack_size))],
                   Tail(lines), n_updated + 1)
    ELSE ScanLines(item, Tail(lines), n_updated)

\* lines 51-63: one item of the loop over the items
FixItem(item) ==
    IF Selected(item)
    THEN ScanLines(item, LinesOf(po_lines, Val(item.purchase_order)), 0)
    ELSE [item |-> item, n_updated |-> 0]

RECURSIVE SumUpdated(_)
SumUpdated(items) ==
    IF items = <<>> THEN 0 ELSE FixItem(Head(items)).n_updated + SumUpdated(Tail(items))

InitMigration ==
    /\ stock \in StockTables
    /\ po_lines \in LineTables
    /\ migrated = FALSE
    /\ parts = NoTable
    /\ settings = NoTable
    /\ request = NoRequest
    /\ response = NoResponse
    /\ repeated = FALSE
    /\ users = NoTable
    /\ email_host = ""
    /\ session = NoTable
    /\ conf_dirs = NoTable
    /\ fs = {}

\* the migration: RunPython(fix_purchase_price), run once; request keeps the table
\* as it was before the run
fix_purchase_price ==
    /\ ~migrated
    /\ migrated' = TRUE
    /\ stock' = [i \in 1..Len(stock) |-> FixItem(stock[i]).item]
    /\ request' = [view |-> "fix_purchase_price", before |-> stock]
    /\ response' = [status |-> "ok", n_updated |-> SumUpdated(stock)]
    /\ UNCHANGED <<parts, settings, repeated, po_lines, conf_dirs, fs, users, email_host, session>>

NextMigration == fix_purchase_price

SpecMigration == InitMigration /\ [][NextMigration]_vars

\* the purchase price of an item was stored without the division by the pack size:
\* a line of its order, for its supplier part, has the same purchase price
Misapplied(item) ==
    /\ Selected(item)
    /\ \E i \in 1..Len(po_lines) :
           /\ po_lines[i].order = Val(item.purchase_order)
           /\ po_lines[i].part = Val(item.supplier_part)
           /\ po_lines[i].purchase_price = item.purchase_price

\* C8: after the migration, every stock item that is linked to a purchase order, has a
\* purchase price, is linked to a supplier part of pack size other than 1 and whose
\* price equals that of a line of the order for the same supplier part, holds its
\* original purchase price divided by the pack size.
C8_UnitPriceAfterFix ==
    migrated =>
        \A i \in 1..Len(stock) :
            Misapplied(request.before[i]) =>
                stock[i].purchase_price =
                    Some(RatDiv(Val(request.before[i].purchase_price),
                                Val(request.before[i].supplier_part).pack_size))

(***************************************************************************)
(* get_media_dir / get_static_dir (InvenTree/config.py).                   *)
(*                                                                         *)
(* get_settings_dir is imported (config.py line 6): it returns the         *)
(* directory configured under the given name, and makes it when asked to.  *)
(***************************************************************************)
DirNames == {"media", "static"}
Paths == {"/data/media", "/data/static", "/srv/files"}

get_settings_dir(name, create) ==
    [path |-> conf_dirs[name],
     fs |-> IF create THEN fs \cup {conf_dirs[name]} ELSE fs]

get_media_dir(create) == get_settings_dir("media", create)

get_static_dir(create) == get_settings_dir("media", create)

InitConfig ==
    /\ conf_dirs \in [DirNames -> Paths]
    /\ fs \in SUBSET Paths
    /\ parts = NoTable
    /\ settings = NoTable
    /\ request = NoRequest
    /\ response = NoResponse
    /\ repeated = FALSE
    /\ users = NoTable
    /\ email_host = ""
    /\ session = NoTable
    /\ stock = NoTable
    /\ po_lines = NoTable
    /\ migrated = FALSE

CallMediaDir ==
    \E create \in BOOLEAN :
        /\ request' = [view |-> "get_media_dir", create |-> create]
        /\ response' = [status |-> "ok", path |-> get_media_dir(create).path]
        /\ fs' = get_media_dir(create).fs
        /\ UNCHANGED <<parts, settings, repeated, stock, po_lines, migrated, conf_dirs, users, email_host, session>>

CallStaticDir ==
    \E create \in BOOLEAN :
        /\ request' = [view |-> "get_static_dir", create |-> create]
        /\ response' = [status |-> "ok", path |-> get_static_dir(create).path]
        /\ fs' = get_static_dir(create).fs
        /\ UNCHANGED <<parts, settings, repeated, stock, po_lines, migrated, conf_dirs, users, email_host, session>>

NextConfig == CallMediaDir \/ CallStaticDir

SpecConfig == InitConfig /\ [][NextConfig]_vars

\* C9: get_static_dir returns the 'static' directory and get_media_dir the 'media'
\* directory; where the two directories differ, so do the two results.
C9_StaticAndMediaDirs ==
    /\ request.view = "get_media_dir" => response.path = conf_dirs["media"]
    /\ request.view = "get_static_dir" =>
           /\ response.path = conf_dirs["static"]
           /\ conf_dirs["static"] # conf_dirs["media"]
                  => response.path # get_media_dir(FALSE).path

(***************************************************************************)
(* BomDownload.get (part/views.py).                                        *)
(***************************************************************************)
MaxLevels == 2

\* int(text): surrounding blanks stripped, an optional sign, then digits; anything
\* else raises ValueError
ParseInt(s) ==
    LET t == Strip(s)
        signed == t # <<>> /\ Head(t) \in {"-", "+"}
        sign == IF signed /\ Head(t) = "-" THEN -1 ELSE 1
        body == IF signed THEN Tail(t) ELSE t
    IN  IF body # <<>> /\ AllDigits(body)
        THEN [kind |-> "int", value |-> sign * DigitsValue(body)]
        ELSE [kind |-> "ValueError"]

\* (a variant that lets a depth of 0 through)
Levels_zero_kept(levels) ==
    IF levels = None THEN None
    ELSE IF ParseInt(Val(levels)).kind = "ValueError" THEN None
    ELSE IF ParseInt(Val(levels)).value < 0 THEN None
    ELSE Some(ParseInt(Val(levels)).value)

\* lines 60-70: the depth limit from the query parameter 'levels'
Levels(levels) ==
    IF levels = None THEN None
    ELSE IF ParseInt(Val(levels)).kind = "ValueError" THEN None
    ELSE IF ParseInt(Val(levels)).value <= 0 THEN None
    ELSE Some(ParseInt(Val(levels)).value)

\* part/bom.py: the formats a BOM can be exported in
ExportFormats == {"csv", "tsv", "xls", "xlsx", "json", "yaml"}
IsValidBOMFormat(fmt) == fmt \in ExportFormats

\* InvenTree/helpers.py: the texts that mean yes
str2bool(text) == text \in {"1", "y", "yes", "t", "true", "ok", "on"}

\* lines 44, 72-73: the export format from the query parameter 'format'
ExportFormat(format) ==
    LET export_format == IF format = None THEN "csv" ELSE Val(format)
    IN  IF ~IsValidBOMFormat(export_format) THEN "csv" ELSE export_format

\* a flag of the query: request.GET.get(name, False)
Flag(GET, name) == IF name \in DOMAIN GET THEN str2bool(GET[name]) ELSE str2bool("False")

FlagNames ==
    {"cascade", "parameter_data", "substitute_part_data", "stock_data", "supplier_data",
     "manufacturer_data", "pricing_data"}

\* the query parameters of the requests
FormatParams == {None, Some("csv"), Some("xlsx"), Some("json"), Some("pdf"), Some("")}
LevelParams ==
    {None}
    \cup {Some(IntToStr(i)) : i \in -MaxLevels..MaxLevels}
    \cup {Some(<<"2", ".", "5">>), Some(<<>>), Some(<<"a", "b", "c">>), Some(<<" ", "2", " ">>),
          Some(<<"+", "1">>)}
FlagParams ==
    {<<>>, [n \in FlagNames |-> "true"],
     [n \in {"cascade", "pricing_data"} |-> IF n = "cascade" THEN "1" ELSE "no"]}

InitBom ==
    /\ \E row \in {r \in PartRows : /\ r.suppliers = <<>> /\ r.internal_price = None
                                     /\ r.price = None /\ Len(r.bom) < 3} :
           parts = (1 :> row)
    /\ settings \in [{"PART_BOM_USE_INTERNAL_PRICE"} -> {FALSE}]
    /\ request = NoRequest
    /\ response = NoResponse
    /\ repeated = FALSE
    /\ users = NoTable
    /\ email_host = ""
    /\ session = NoTable
    /\ stock = NoTable
    /\ po_lines = NoTable
    /\ migrated = FALSE
    /\ conf_dirs = NoTable
    /\ fs = {}

\* BomDownload.get: Http404 when the part is not stored, else the call of ExportBom
BomDownload_get ==
    \E pk \in PartKeys, format \in FormatParams, levels \in LevelParams, flags \in FlagParams :
        /\ request' = [view |-> "BomDownload", method |-> "GET", pk |-> pk,
                       format |-> format, levels |-> levels, flags |-> flags]
        /\ response' =
               IF pk \notin DOMAIN parts
               THEN [status |-> "error", exception |-> "Http404"]
               ELSE [status |-> "ok",
                     ExportBom |->
                         [part |-> parts[pk],
                          fmt |-> ExportFormat(format),
                          cascade |-> Flag(flags, "cascade"),
                          max_levels |-> Levels(levels),
                          parameter_data |-> Flag(flags, "parameter_data"),
                          stock_data |-> Flag(flags, "stock_data"),
                          supplier_data |-> Flag(flags, "supplier_data"),
                          manufacturer_data |-> Flag(flags, "manufacturer_data"),
                          pricing_data |-> Flag(flags, "pricing_data"),
                          substitute_part_data |-> Flag(flags, "substitute_part_data")]]
        /\ UNCHANGED <<parts, settings, repeated, stock, po_lines, migrated, conf_dirs, fs, users, email_host, session>>

NextBom == BomDownload_get

SpecBom == InitBom /\ [][NextBom]_vars

\* the query parameter 'levels' is the text of a positive integer
PositiveInt(levels) ==
    /\ levels # None
    /\ ParseInt(Val(levels)).kind = "int"
    /\ ParseInt(Val(levels)).value > 0

\* C10: for a stored part BomDownload.get always ends in the call of ExportBom:
\* max_levels is the integer of 'levels' when that is a positive integer and None
\* when it is missing, no integer or <= 0; fmt is 'format' when IsValidBOMFormat
\* accepts it and 'csv' otherwise.
C10_QueryParameters ==
    (request.view = "BomDownload" /\ PartFound) =>
        /\ response.status = "ok"
        /\ IF PositiveInt(request.levels)
           THEN response.ExportBom.max_levels = Some(ParseInt(Val(request.levels)).value)
           ELSE response.ExportBom.max_levels = None
        /\ IF request.format # None /\ IsValidBOMFormat(Val(request.format))
           THEN response.ExportBom.fmt = Val(request.format)
           ELSE response.ExportBom.fmt = "csv"

C10_Witness ==
    /\ request.view = "BomDownload" /\ PartFound
    /\ request.levels = Some(<<"a", "b", "c">>)
    /\ request.format = Some("pdf")
    /\ response.status = "ok"
    /\ response.ExportBom.max_levels = None
    /\ response.ExportBom.fmt = "csv"

(***************************************************************************)
(* Registration and social login (InvenTree/forms.py).                     *)
(*                                                                         *)
(* A User row: username and totp (whether the user has a valid TOTP        *)
(* device, what user_has_valid_totp_device answers).                       *)
(***************************************************************************)
MaxUsers == 3

\* InvenTree/sso.py: whether registration by SSO is switched on
sso_registration_enabled == settings["LOGIN_ENABLE_SSO_REG"]

\* (a variant that does not look at EMAIL_HOST)
registration_enabled_without_mail ==
    settings["LOGIN_ENABLE_REG"] \/ sso_registration_enabled

\* lines 95-107: registration_enabled; an empty EMAIL_HOST is falsy
registration_enabled ==
    IF settings["LOGIN_ENABLE_REG"] \/ sso_registration_enabled
    THEN IF email_host # "" THEN TRUE ELSE FALSE
    ELSE FALSE

\* lines 113-120: is_open_for_signup of CustomUrlRegistratonMixin; super_open is what
\* the adapter of allauth under it answers
is_open_for_signup(super_open) == IF registration_enabled THEN super_open ELSE FALSE

Adapters == {"CustomAccountAdapter", "CustomSocialAccountAdapter"}
Usernames == {"carol", "dave"}
Hosts == {"", "smtp.example.org"}

\* the users stored before any request: the first has a TOTP device or not, the
\* second has none or one
InitialUsers ==
    {<<[username |-> "alice", totp |-> a], [username |-> "bob", totp |-> b]>> :
        a \in BOOLEAN, b \in BOOLEAN}

InitForms ==
    /\ settings \in [{"LOGIN_ENABLE_REG", "LOGIN_ENABLE_SSO_REG"} -> BOOLEAN]
    /\ email_host \in Hosts
    /\ users \in InitialUsers
    /\ session = NoTable
    /\ request = NoRequest
    /\ response = NoResponse
    /\ repeated = FALSE
    /\ parts = NoTable
    /\ stock = NoTable
    /\ po_lines = NoTable
    /\ migrated = FALSE
    /\ conf_dirs = NoTable
    /\ fs = {}

\* a call of registration_enabled()
Call_registration_enabled ==
    /\ request' = [view |-> "registration_enabled"]
    /\ response' = [status |-> "ok", result |-> registration_enabled]
    /\ UNCHANGED <<parts, settings, repeated, stock, po_lines, migrated, conf_dirs, fs,
                   users, email_host, session>>

\* is_open_for_signup of one of the two account adapters
Call_is_open_for_signup ==
    \E adapter \in Adapters, super_open \in BOOLEAN :
        /\ request' = [view |-> "is_open_for_signup", adapter |-> adapter,
                       super_open |-> super_open]
        /\ response' = [status |-> "ok", result |-> is_open_for_signup(super_open)]
        /\ UNCHANGED <<parts, settings, repeated, stock, po_lines, migrated, conf_dirs, fs,
                       users, email_host, session>>

\* lines 262-266: CustomRegisterSerializer.save; the save of RegisterSerializer
\* stores the new user
CustomRegisterSerializer_save ==
    \E username \in Usernames :
        /\ Len(users) < MaxUsers
        /\ request' = [view |-> "CustomRegisterSerializer.save", username |-> username]
        /\ IF registration_enabled
           THEN /\ users' = Append(users, [username |-> username, totp |-> FALSE])
                /\ response' = [status |-> "ok", user |-> Len(users) + 1]
           ELSE /\ users' = users
                /\ response' = [status |-> "error", exception |-> "ValidationError",
                                message |-> "Registration is disabled."]
        /\ UNCHANGED <<parts, settings, repeated, stock, po_lines, migrated, conf_dirs, fs,
                       email_host, session>>

\* line 214: has_2fa_enabled, user_has_valid_totp_device(user)
has_2fa_enabled(user) == user.totp

\* reverse(name): the URL of the view of that name
reverse(name) == <<"url", name>>

\* quote_plus of a key or a value: a slash is escaped, a plain word is kept
quote_plus(text) ==
    CASE text = "/part/" -> "%2Fpart%2F"
      [] text = "/" -> "%2F"
      [] OTHER -> text

\* urlencode(request.GET): key=value pairs joined by &, as a sequence of pieces
RECURSIVE urlencode(_)
urlencode(GET) ==
    IF GET = <<>> THEN <<>>
    ELSE <<quote_plus(GET[1][1]), "=", quote_plus(GET[1][2])>>
         \o (IF Len(GET) > 1 THEN <<"&">> \o urlencode(Tail(GET)) ELSE <<>>)

\* (a variant that stores the user id but goes on to the login of allauth)
login_without_abort(id, GET) ==
    IF has_2fa_enabled(users[id])
    THEN [session |-> ("_auth_user_id" :> IntToStr(id)) @@
                      ("allauth_2fa_user_id" :> IntToStr(id)) @@ session,
          response |-> [status |-> "ok", super_login |-> TRUE]]
    ELSE [session |-> ("_auth_user_id" :> IntToStr(id)) @@ session,
          response |-> [status |-> "ok", super_login |-> TRUE]]

\* lines 216-232: CustomSocialAccountAdapter.login; the login of allauth under it
\* stores the user id in the session as the authenticated user
login(id, GET) ==
    IF has_2fa_enabled(users[id])
    THEN [session |-> ("allauth_2fa_user_id" :> IntToStr(id)) @@ session,
          response |-> [status |-> "error", exception |-> "ImmediateHttpResponse",
                        redirect |-> <<reverse("two-factor-authenticate")>>
                                     \o (IF GET # <<>> THEN <<"?">> \o urlencode(GET)
                                         ELSE <<>>),
                        super_login |-> FALSE]]
    ELSE [session |-> ("_auth_user_id" :> IntToStr(id)) @@ session,
          response |-> [status |-> "ok", super_login |-> TRUE]]

\* the query strings of the login requests
Queries ==
    {<<>>, <<<<"next", "/part/">>>>, <<<<"next", "/">>, <<"process", "login">>>>}

CustomSocialAccountAdapter_login ==
    \E id \in 1..Len(users), GET \in Queries :
        /\ request' = [view |-> "CustomSocialAccountAdapter.login", user |-> id, GET |-> GET]
        /\ session' = login(id, GET).session
        /\ response' = login(id, GET).response
        /\ UNCHANGED <<parts, settings, repeated, stock, po_lines, migrated, conf_dirs, fs,
                       users, email_host>>

NextForms ==
    \/ Call_registration_enabled
    \/ Call_is_open_for_signup
    \/ CustomRegisterSerializer_save
    \/ CustomSocialAccountAdapter_login

SpecForms == InitForms /\ [][NextForms]_vars

\* registration is switched on and mail can be sent
RegistrationOpen ==
    /\ settings["LOGIN_ENABLE_REG"] \/ settings["LOGIN_ENABLE_SSO_REG"]
    /\ email_host # ""

\* C11: registration_enabled is True exactly when (LOGIN_ENABLE_REG is on or SSO
\* registration is enabled) and EMAIL_HOST is set; when it is False, is_open_for_signup
\* of both adapters answers False and CustomRegisterSerializer.save raises a
\* validation error and creates no user.
C11_RegistrationOpen ==
    [][/\ request'.view = "registration_enabled" => (response'.result <=> RegistrationOpen)
       /\ (request'.view = "is_open_for_signup" /\ ~RegistrationOpen)
              => response'.result = FALSE
       /\ (request'.view = "CustomRegisterSerializer.save" /\ ~RegistrationOpen)
              => /\ response'.status = "error"
                 /\ response'.exception = "ValidationError"
                 /\ users' = users]_vars

\* LOGIN_ENABLE_REG is on but no mail host is set: save is refused
C11_Witness ==
    /\ request.view = "CustomRegisterSerializer.save"
    /\ settings["LOGIN_ENABLE_REG"] /\ email_host = ""
    /\ response.status = "error"
    /\ Len(users) < MaxUsers

\* the pieces of the query of a redirect: pair i of GET sits at 4i-1 .. 4i+1
QueryCarried(redirect, GET) ==
    /\ Len(redirect) = IF GET = <<>> THEN 1 ELSE 1 + 4 * Len(GET)
    /\ GET # <<>> => redirect[2] = "?"
    /\ \A i \in 1..Len(GET) :
           /\ redirect[4 * i - 1] = quote_plus(GET[i][1])
           /\ redirect[4 * i] = "="
           /\ redirect[4 * i + 1] = quote_plus(GET[i][2])
           /\ i > 1 => redirect[4 * i - 2] = "&"

\* C12: the social login of a user with 2FA stores the user id in the session under
\* 'allauth_2fa_user_id' and aborts with a redirect to the two-factor page that
\* carries the GET parameters, without the login of allauth; only a user without 2FA
\* reaches that login, so the session never holds a 2FA user as logged in.
C12_TwoFactorFirst ==
    /\ request.view = "CustomSocialAccountAdapter.login" =>
           IF users[request.user].totp
           THEN /\ response.status = "error"
                /\ response.exception = "ImmediateHttpResponse"
                /\ ~response.super_login
                /\ session["allauth_2fa_user_id"] = IntToStr(request.user)
                /\ response.redirect[1] = reverse("two-factor-authenticate")
                /\ QueryCarried(response.redirect, request.GET)
           ELSE response.super_login
    /\ "_auth_user_id" \in DOMAIN session =>
           \E id \in 1..Len(users) :
               session["_auth_user_id"] = IntToStr(id) /\ ~users[id].totp

C12_Witness ==
    /\ request.view = "CustomSocialAccountAdapter.login"
    /\ users[request.user].totp
    /\ Len(request.GET) = 2
    /\ response.exception = "ImmediateHttpResponse"
    /\ "allauth_2fa_user_id" \in DOMAIN session
    /\ "_auth_user_id" \in DOMAIN session

=============================================================================
